---- MODULE Spec2Model ----
(***************************************************************************)
(* State-machine model of the open-ai-tutorial entry points:               *)
(*   - src/chat-bot/index.ts  (interactive chat loop with history)         *)
(*   - src/basics/index.ts    (single-shot completion saved to a file)     *)
(*   - src/tool-chat/index.ts (conversation loop with tool dispatch)       *)
(* One behaviour of the model is one run of one npm script.                *)
(***************************************************************************)
EXTENDS Integers, Sequences, FiniteSets, TLC

(***************************************************************************)
(* Bounds of the exploration.                                              *)
(***************************************************************************)
\* number of non-exit lines the operator types in one run
MaxInputs == 2
\* number of tool-call requests the remote model makes in one run
MaxToolCalls == 2

(***************************************************************************)
(* Strings are sequences of characters, so that case conversion and        *)
(* comparison are computed and not assumed.                                *)
(***************************************************************************)
UpperToLower ==
    [c \in {"E", "X", "I", "T", "H"} |->
        CASE c = "E" -> "e" [] c = "X" -> "x" [] c = "I" -> "i"
          [] c = "T" -> "t" [] c = "H" -> "h"]

\* Locales the host can run the script under ("tr-TR" has the dotless i).
Locales == {"en-US", "tr-TR"}

\* String.prototype.toLocaleLowerCase() on one character under a locale.
LowerChar(c, locale) ==
    IF c \in DOMAIN UpperToLower
    THEN IF c = "I" /\ locale = "tr-TR" THEN "dotless-i" ELSE UpperToLower[c]
    ELSE c

\* String.prototype.toLowerCase() on one character
LowerCharInvariant(c) == IF c \in DOMAIN UpperToLower THEN UpperToLower[c] ELSE c

toLocaleLowerCase(s, locale) == [i \in 1..Len(s) |-> LowerChar(s[i], locale)]

ExitToken == <<"e", "x", "i", "t">>

\* the test of the loop: userInput.toLocaleLowerCase() === "exit"
IsExit(s, locale) == toLocaleLowerCase(s, locale) = ExitToken

\* lines the operator may type
UserInputs ==
    { <<"e", "x", "i", "t">>,
      <<"E", "X", "I", "T">>,
      <<"E", "x", "i", "t">>,
      <<"e", "x", "i", "t", " ">>,
      <<"h", "i">> }

\* contents the remote model may answer with
Contents == { <<"p", "o", "n", "g">>, <<"o", "k">> }

SystemPrompt == <<"You are my personal AI assistant.">>

\* the seed of chatMemory
SystemTurn == [role |-> "system", content |-> SystemPrompt]

NoExit == -1

\* value of `response` before create() has resolved
NoResponse == [hasChoices |-> FALSE, choices |-> << >>]

VARIABLES
    script,         \* which npm script runs: "chatbot", "basic", "toolchat"
    apiKey,         \* process.env.GROQ_API_KEY after dotenv.config()
    locale,         \* default locale of the host
    pc,             \* position of the run
    client,         \* TRUE once new OpenAI(...) has run
    mainStarted,    \* TRUE once main() has been called
    chatMemory,     \* the message store
    pending,        \* completion calls in flight
    sent,           \* messages of the last completions.create request
    createCalls,    \* number of completions.create calls issued
    inputsRead,     \* lines returned by input(), in order
    lastLine,       \* the last line returned by input(), <<>> before any
    answers,        \* contents of the plain-content responses, in order
    stdout,         \* what console.log printed
    stderr,         \* what console.error / the runtime printed
    failure,        \* the error raised in this run, "none" if none
    exitCode,       \* process exit status, NoExit while running
    response,       \* the resolved value of create() (basics)
    files,          \* response files written (basics)
    toolLog         \* tool invocations made (tool-chat)

vars == << script, apiKey, locale, pc, client, mainStarted, chatMemory,
           pending, sent, createCalls, inputsRead, lastLine, answers,
           stdout, stderr, failure, exitCode, response, files, toolLog >>

EnvKeys ==
    { [defined |-> FALSE, value |-> ""],
      [defined |-> TRUE, value |-> ""],
      [defined |-> TRUE, value |-> "gsk_key"] }

\* variant: a test for undefined only
KeyUndefinedOnly(k) == ~k.defined

\* !process.env.GROQ_API_KEY
KeyMissing(k) == ~k.defined \/ k.value = ""

Init ==
    /\ script \in {"chatbot", "basic", "toolchat"}
    /\ apiKey \in EnvKeys
    /\ locale \in Locales
    /\ pc = "Load"
    /\ client = FALSE
    /\ mainStarted = FALSE
    /\ chatMemory = << >>
    /\ pending = 0
    /\ sent = << >>
    /\ createCalls = 0
    /\ inputsRead = << >>
    /\ lastLine = << >>
    /\ answers = << >>
    /\ stdout = << >>
    /\ stderr = << >>
    /\ failure = "none"
    /\ exitCode = NoExit
    /\ response = NoResponse
    /\ files = 0
    /\ toolLog = << >>

(***************************************************************************)
(* chat-bot: module load.                                                  *)
(***************************************************************************)
\* position main() is in once it has printed its banner
MainEntry == "AwaitingInput"

ChatLoad ==
    /\ script = "chatbot"
    /\ pc = "Load"
    /\ IF KeyMissing(apiKey)
       THEN /\ failure' = "ConfigurationError"
            /\ stderr' = Append(stderr, "Uncaught Error: GROQ_API_KEY is not defined")
            /\ exitCode' = 1
            /\ pc' = "Exited"
            /\ UNCHANGED << client, mainStarted, chatMemory, stdout >>
       ELSE /\ client' = TRUE
            /\ chatMemory' = << SystemTurn >>
            /\ mainStarted' = TRUE
            /\ stdout' = Append(stdout, "Chat bot started.")
            /\ pc' = MainEntry
            /\ UNCHANGED << failure, stderr, exitCode >>
    /\ UNCHANGED << script, apiKey, locale, pending, sent, createCalls,
                    inputsRead, lastLine, answers, response, files, toolLog >>

(***************************************************************************)
(* chat-bot: the loop of main() and chatCompletion().                      *)
(***************************************************************************)
Last(seq) == seq[Len(seq)]

\* variant: unshift instead of push
PushFront(mem, turn) == << turn >> \o mem

\* chatMemory.push(turn)
PushTurn(mem, turn) == Append(mem, turn)

\* variant: the line stored under the wrong role
UserTurnAsSystem(line) == [role |-> "system", content |-> line]

\* the turn main() pushes for a line
UserTurn(line) == [role |-> "user", content |-> line]

\* variant: the content of the response dropped
AssistantTurnNoContent(msg) == [role |-> msg.role, content |-> << >>]

\* the turn chatCompletion() pushes for a response message
AssistantTurn(msg) == [role |-> msg.role, content |-> msg.content]

\* variant: a sliding window of the last two turns
RequestMessagesWindow(mem) == SubSeq(mem, Len(mem) - 1, Len(mem))

\* messages: chatMemory
RequestMessages(mem) == mem

\* variant: chatCompletion() called without await
NoAwaitPosition == "AwaitingInput"

\* position of main() while `await chatCompletion()` is outstanding
AwaitPosition == "Completing"

\* process.exit(1) of main().catch
ChatCatchExitCode == 1

\* payloads the remote can answer a successful HTTP exchange with
PlainPayloads ==
    { [hasChoices |-> TRUE,
       choices |-> << [hasMessage |-> TRUE,
                       message |-> [role |-> "assistant", content |-> c]] >>]
      : c \in Contents }

MalformedPayloads ==
    { [hasChoices |-> FALSE, choices |-> << >>],
      [hasChoices |-> TRUE, choices |-> << >>],
      [hasChoices |-> TRUE,
       choices |-> << [hasMessage |-> FALSE,
                       message |-> [role |-> "", content |-> << >>]] >>] }

\* variant: optional chaining on the message (responseMessage?.role)
ExtractThrowsChoicesOnly(payload) ==
    \/ ~payload.hasChoices
    \/ Len(payload.choices) = 0

\* response.choices[0].message followed by the reads of .role and .content:
\* TRUE when one of them dereferences undefined and throws a TypeError
ExtractThrows(payload) ==
    \/ ~payload.hasChoices
    \/ Len(payload.choices) = 0
    \/ ~payload.choices[1].hasMessage

ResponseMessage(payload) == payload.choices[1].message

\* rejections of client.chat.completions.create
RemoteFailures == {"APIConnectionError", "APIStatusError"}

\* one iteration of `while (true)` up to the await of chatCompletion()
ReadInput(line) ==
    /\ script = "chatbot"
    /\ pc = "AwaitingInput"
    /\ inputsRead' = Append(inputsRead, line)
    /\ lastLine' = line
    /\ IF IsExit(line, locale)
       THEN /\ stdout' = Append(stdout, "Exiting chat bot...")
            /\ pc' = "Terminated"
            /\ exitCode' = 0
            /\ UNCHANGED << chatMemory, pending, sent, createCalls >>
       ELSE /\ createCalls < MaxInputs
            /\ chatMemory' = PushTurn(chatMemory, UserTurn(line))
            /\ sent' = RequestMessages(chatMemory')
            /\ pending' = pending + 1
            /\ createCalls' = createCalls + 1
            /\ pc' = AwaitPosition
            /\ UNCHANGED << stdout, exitCode >>
    /\ UNCHANGED << script, apiKey, locale, client, mainStarted, answers,
                    stderr, failure, response, files, toolLog >>

\* the rejection of main() reaching main().catch
ChatFatal(kind) ==
    /\ failure' = kind
    /\ stderr' = Append(stderr, "Unexpected error in chat bot:")
    /\ exitCode' = ChatCatchExitCode
    /\ pc' = "Exited"

\* the create() promise resolves and chatCompletion() continues
CompletionResolve(payload) ==
    /\ script = "chatbot"
    /\ pending > 0
    /\ exitCode = NoExit
    /\ pending' = pending - 1
    /\ response' = payload
    /\ IF ExtractThrows(payload)
       THEN /\ ChatFatal("TypeError")
            /\ UNCHANGED << chatMemory, answers, stdout >>
       ELSE /\ chatMemory' = PushTurn(chatMemory, AssistantTurn(ResponseMessage(payload)))
            /\ answers' = Append(answers, ResponseMessage(payload).content)
            /\ stdout' = Append(stdout, ResponseMessage(payload).content)
            /\ pc' = IF pc = "Completing" THEN "AwaitingInput" ELSE pc
            /\ UNCHANGED << failure, stderr, exitCode >>
    /\ UNCHANGED << script, apiKey, locale, client, mainStarted, sent,
                    createCalls, inputsRead, lastLine, files, toolLog >>

\* the create() promise rejects
CompletionReject(kind) ==
    /\ script = "chatbot"
    /\ pending > 0
    /\ exitCode = NoExit
    /\ pending' = pending - 1
    /\ ChatFatal(kind)
    /\ UNCHANGED << script, apiKey, locale, client, mainStarted, chatMemory,
                    sent, createCalls, inputsRead, lastLine, answers,
                    stdout, response, files, toolLog >>

(***************************************************************************)
(* basics: module load, main() and saveResponseToFile().                   *)
(***************************************************************************)
\* the fixed conversation main() sends
BasicMessages ==
    << [role |-> "system", content |-> <<"You are a helpful coding assistant.">>],
       [role |-> "user", content |-> <<"Hello, how are you?">>],
       [role |-> "assistant", content |-> <<"I'm good! How can I help you today?">>],
       [role |-> "user", content |-> <<"Kindly provide me with ... the Target Sum problem">>] >>

\* exit status of a run whose main() promise resolved: nothing sets
\* process.exitCode, and main().catch runs only when main() rejects
ResolvedExitCode == 0

\* the catch block of main(): log, then fall off the end of main()
BasicCaught(kind) ==
    /\ failure' = kind
    /\ stderr' = Append(stderr, "Error in main function:")
    /\ exitCode' = ResolvedExitCode
    /\ pc' = "Terminated"

BasicLoad ==
    /\ script = "basic"
    /\ pc = "Load"
    /\ IF KeyMissing(apiKey)
       THEN /\ failure' = "ConfigurationError"
            /\ stderr' = Append(stderr, "Uncaught Error: GROQ_API_KEY is not defined")
            /\ exitCode' = 1
            /\ pc' = "Exited"
            /\ UNCHANGED << client, mainStarted, pending, sent, createCalls >>
       ELSE /\ client' = TRUE
            /\ mainStarted' = TRUE
            /\ sent' = BasicMessages
            /\ pending' = pending + 1
            /\ createCalls' = createCalls + 1
            /\ pc' = "BasicCalling"
            /\ UNCHANGED << failure, stderr, exitCode >>
    /\ UNCHANGED << script, apiKey, locale, chatMemory, inputsRead, lastLine,
                    answers, stdout, response, files, toolLog >>

\* create() resolves; saveResponseToFile() starts with fs.mkdir
BasicCallResolve(payload) ==
    /\ script = "basic"
    /\ pc = "BasicCalling"
    /\ pending' = pending - 1
    /\ response' = payload
    /\ pc' = "Mkdir"
    /\ UNCHANGED << script, apiKey, locale, client, mainStarted, chatMemory,
                    sent, createCalls, inputsRead, lastLine, answers, stdout,
                    stderr, failure, exitCode, files, toolLog >>

\* create() rejects inside the try block of main()
BasicCallReject(kind) ==
    /\ script = "basic"
    /\ pc = "BasicCalling"
    /\ pending' = pending - 1
    /\ BasicCaught(kind)
    /\ UNCHANGED << script, apiKey, locale, client, mainStarted, chatMemory,
                    sent, createCalls, inputsRead, lastLine, answers, stdout,
                    response, files, toolLog >>

\* the catch block of saveResponseToFile(): log and re-throw to main()
SaveFailed(kind) ==
    /\ failure' = kind
    /\ stderr' = stderr \o << "Error saving file:", "Error in main function:" >>
    /\ exitCode' = ResolvedExitCode
    /\ pc' = "Terminated"

\* await fs.mkdir(dataDir, { recursive: true })
BasicMkdir(ok) ==
    /\ script = "basic"
    /\ pc = "Mkdir"
    /\ IF ok
       THEN /\ pc' = "WriteFile"
            /\ UNCHANGED << failure, stderr, exitCode >>
       ELSE SaveFailed("MkdirError")
    /\ UNCHANGED << script, apiKey, locale, client, mainStarted, chatMemory,
                    pending, sent, createCalls, inputsRead, lastLine, answers,
                    stdout, response, files, toolLog >>

\* await fs.writeFile(...), then the two console.log of main()
BasicWriteFile(ok) ==
    /\ script = "basic"
    /\ pc = "WriteFile"
    /\ IF ~ok
       THEN /\ SaveFailed("WriteError")
            /\ UNCHANGED << files, stdout >>
       ELSE /\ files' = files + 1
            /\ IF ~response.hasChoices
               THEN \* response.choices[0] on undefined throws a TypeError
                    /\ stdout' = Append(stdout, "Response saved to:")
                    /\ BasicCaught("TypeError")
               ELSE /\ stdout' = stdout \o << "Response saved to:", "AI Response:",
                                             "Full response saved to:" >>
                    /\ exitCode' = ResolvedExitCode
                    /\ pc' = "Terminated"
                    /\ UNCHANGED << failure, stderr >>
    /\ UNCHANGED << script, apiKey, locale, client, mainStarted, chatMemory,
                    pending, sent, createCalls, inputsRead, lastLine, answers,
                    response, toolLog >>

(***************************************************************************)
(* tool-chat: the conversation loop with a tool registry.                  *)
(***************************************************************************)
NoTool == "none"

\* names registered in the tool registry
ToolRegistry == {"send_email", "get_weather"}

\* names the remote model may request
RequestedTools == ToolRegistry \cup {"nonexistent-tool"}

\* the termination token, compared case-insensitively
IsTerminationToken(s) == [i \in 1..Len(s) |-> LowerCharInvariant(s[i])] = ExitToken

ToolSystemTurn ==
    [role |-> "system", content |-> SystemPrompt,
     toolCallRequest |-> NoTool, toolCallId |-> 0]

ToolUserTurn(line) ==
    [role |-> "user", content |-> line, toolCallRequest |-> NoTool, toolCallId |-> 0]

\* the assistant turn of a completion result (plain content or tool call)
ResultTurn(result) ==
    [role |-> "assistant", content |-> result.content,
     toolCallRequest |-> result.toolName, toolCallId |-> result.toolCallId]

\* the turn appended for a ToolResult
ToolResultTurn(id, content) ==
    [role |-> "tool", content |-> content, toolCallRequest |-> NoTool,
     toolCallId |-> id]

\* results the completion client can return on its n-th call
CompletionResults(n) ==
    { [content |-> c, toolName |-> NoTool, toolCallId |-> 0] : c \in Contents }
      \cup
    { [content |-> << >>, toolName |-> t, toolCallId |-> n] : t \in RequestedTools }

\* variant: tool-call requests ignored
AfterResultAlwaysInput(result) == "AwaitingInput"

\* state the loop moves to after a completion result
AfterResult(result) ==
    IF result.toolName = NoTool THEN "AwaitingInput" ELSE "ToolDispatch"

ToolFatal(kind) ==
    /\ failure' = kind
    /\ stderr' = Append(stderr, kind)
    /\ exitCode' = 1
    /\ pc' = "Exited"

ToolLoad ==
    /\ script = "toolchat"
    /\ pc = "Load"
    /\ IF KeyMissing(apiKey)
       THEN /\ ToolFatal("ConfigurationError")
            /\ UNCHANGED << client, mainStarted, chatMemory >>
       ELSE /\ client' = TRUE
            /\ chatMemory' = << ToolSystemTurn >>
            /\ mainStarted' = TRUE
            /\ pc' = "AwaitingInput"
            /\ UNCHANGED << failure, stderr, exitCode >>
    /\ UNCHANGED << script, apiKey, locale, pending, sent, createCalls,
                    inputsRead, lastLine, answers, stdout, response, files,
                    toolLog >>

\* AwaitingInput: read a line; Completing: append it and call the client
ToolReadInput(line) ==
    /\ script = "toolchat"
    /\ pc = "AwaitingInput"
    /\ inputsRead' = Append(inputsRead, line)
    /\ lastLine' = line
    /\ IF IsTerminationToken(line)
       THEN /\ pc' = "Terminated"
            /\ exitCode' = 0
            /\ UNCHANGED << chatMemory, pending, sent, createCalls >>
       ELSE /\ Cardinality({i \in 1..Len(chatMemory) : chatMemory[i].role = "user"}) < MaxInputs
            /\ chatMemory' = Append(chatMemory, ToolUserTurn(line))
            /\ sent' = chatMemory'
            /\ pending' = pending + 1
            /\ createCalls' = createCalls + 1
            /\ pc' = "Completing"
            /\ UNCHANGED exitCode
    /\ UNCHANGED << script, apiKey, locale, client, mainStarted, answers,
                    stdout, stderr, failure, response, files, toolLog >>

\* the completion client returns one assistant turn
ToolCompletionResolve(result) ==
    /\ script = "toolchat"
    /\ pc = "Completing"
    /\ result.toolName # NoTool => Len(toolLog) < MaxToolCalls
    /\ pending' = pending - 1
    /\ chatMemory' = Append(chatMemory, ResultTurn(result))
    /\ IF result.toolName = NoTool
       THEN /\ answers' = Append(answers, result.content)
            /\ stdout' = Append(stdout, result.content)
       ELSE UNCHANGED << answers, stdout >>
    /\ pc' = AfterResult(result)
    /\ UNCHANGED << script, apiKey, locale, client, mainStarted, sent,
                    createCalls, inputsRead, lastLine, stderr, failure,
                    exitCode, response, files, toolLog >>

\* the completion client fails with RemoteError
ToolCompletionReject(kind) ==
    /\ script = "toolchat"
    /\ pc = "Completing"
    /\ pending' = pending - 1
    /\ ToolFatal(kind)
    /\ UNCHANGED << script, apiKey, locale, client, mainStarted, chatMemory,
                    sent, createCalls, inputsRead, lastLine, answers, stdout,
                    response, files, toolLog >>

\* ToolDispatch: invoke(name, arguments), append the ToolResult, re-invoke
\* the completion client
ToolDispatch(executorOk) ==
    /\ script = "toolchat"
    /\ pc = "ToolDispatch"
    /\ LET request == Last(chatMemory) IN
       IF request.toolCallRequest \notin ToolRegistry
       THEN /\ ToolFatal("UnknownTool")
            /\ UNCHANGED << chatMemory, pending, sent, createCalls, toolLog >>
       ELSE /\ toolLog' = Append(toolLog, request.toolCallRequest)
            /\ IF ~executorOk
               THEN /\ ToolFatal("ToolExecutionError")
                    /\ UNCHANGED << chatMemory, pending, sent, createCalls >>
               ELSE /\ chatMemory' = Append(chatMemory,
                                        ToolResultTurn(request.toolCallId, <<"result">>))
                    /\ sent' = chatMemory'
                    /\ pending' = pending + 1
                    /\ createCalls' = createCalls + 1
                    /\ pc' = "Completing"
                    /\ UNCHANGED << failure, stderr, exitCode >>
    /\ UNCHANGED << script, apiKey, locale, client, mainStarted, inputsRead,
                    lastLine, answers, stdout, response, files >>

Next ==
    \/ ChatLoad
    \/ \E line \in UserInputs : ReadInput(line)
    \/ \E payload \in PlainPayloads \cup MalformedPayloads : CompletionResolve(payload)
    \/ \E kind \in RemoteFailures : CompletionReject(kind)
    \/ BasicLoad
    \/ \E payload \in PlainPayloads \cup MalformedPayloads : BasicCallResolve(payload)
    \/ \E kind \in RemoteFailures : BasicCallReject(kind)
    \/ \E ok \in BOOLEAN : BasicMkdir(ok)
    \/ \E ok \in BOOLEAN : BasicWriteFile(ok)
    \/ ToolLoad
    \/ \E line \in UserInputs : ToolReadInput(line)
    \/ \E result \in CompletionResults(createCalls) : ToolCompletionResolve(result)
    \/ \E kind \in RemoteFailures : ToolCompletionReject(kind)
    \/ \E executorOk \in BOOLEAN : ToolDispatch(executorOk)

Spec == Init /\ [][Next]_vars

(***************************************************************************)
(* Properties.                                                             *)
(***************************************************************************)
IsChat == script = "chatbot"

\* number of completed iterations of the chat loop at a quiescent point
Iterations == IF pc = "Terminated" THEN Len(inputsRead) - 1 ELSE Len(inputsRead)

\* C1: after N non-exit inputs whose completion calls all returned plain
\* content, chatMemory holds exactly 1 + 2N turns: the system turn, then N
\* pairs (user turn with the input of the iteration, assistant turn with the
\* content returned for it), in strict alternation.
C1_AlternatingHistory ==
    (IsChat /\ pc \in {"AwaitingInput", "Terminated"} /\ failure = "none") =>
        /\ Len(answers) = Iterations
        /\ Len(chatMemory) = 1 + 2 * Iterations
        /\ chatMemory[1] = [role |-> "system", content |-> SystemPrompt]
        /\ \A k \in 1..Iterations :
              /\ chatMemory[2 * k] = [role |-> "user", content |-> inputsRead[k]]
              /\ chatMemory[2 * k + 1] = [role |-> "assistant", content |-> answers[k]]

C1_Witness ==
    /\ IsChat
    /\ pc = "AwaitingInput"
    /\ Len(inputsRead) = 2
    /\ Len(chatMemory) = 5

\* "exit" in any letter case, compared without regard to the host locale
AnyCaseExit(s) == [i \in 1..Len(s) |-> LowerCharInvariant(s[i])] = ExitToken

\* C2: when the line read at AwaitingInput is "exit" in any letter case, the
\* loop moves to Terminated, no turn is appended for that line and no
\* completion call is issued then or later.
C2_ExitAnyCase ==
    [][ (IsChat /\ inputsRead' # inputsRead /\ AnyCaseExit(lastLine')) =>
            /\ pc' = "Terminated"
            /\ chatMemory' = chatMemory
            /\ createCalls' = createCalls
            /\ pending' = 0 ]_vars

\* C3: a completion call that fails (rejection, or a payload without the
\* choices/message fields) ends the process with a non-zero status, appends
\* nothing, and leaves every stored turn in place.
C3_RemoteErrorFatal ==
    [][ (IsChat /\ pending' < pending
           /\ (failure' \in RemoteFailures \/ response' \in MalformedPayloads)) =>
            /\ chatMemory' = chatMemory
            /\ pc' = "Exited"
            /\ exitCode' # NoExit
            /\ exitCode' # 0
            /\ Len(stderr') = Len(stderr) + 1 ]_vars

C3_Witness ==
    /\ IsChat
    /\ pc = "Exited"
    /\ failure = "TypeError"
    /\ Len(chatMemory) = 4
    /\ exitCode = 1

\* the history the operator and the remote have produced so far
RECURSIVE Transcript(_)
Transcript(n) ==
    IF n = 0
    THEN << [role |-> "system", content |-> SystemPrompt] >>
    ELSE Transcript(n - 1)
           \o (IF n <= Len(inputsRead)
               THEN << [role |-> "user", content |-> inputsRead[n]] >> ELSE << >>)
           \o (IF n <= Len(answers)
               THEN << [role |-> "assistant", content |-> answers[n]] >> ELSE << >>)

\* C4: the messages of every completion call are the whole message store at
\* that moment, every turn appended so far in insertion order starting with
\* the system turn, with nothing truncated, dropped, reordered or rewritten.
C4_FullHistorySent ==
    (IsChat /\ pending > 0) =>
        /\ sent = chatMemory
        /\ sent = Transcript(Len(inputsRead))
        /\ Len(sent) = 2 * createCalls

C4_Witness ==
    /\ IsChat
    /\ pending = 1
    /\ createCalls = 2
    /\ Len(sent) = 4

\* errors raised after startup
RuntimeFailures == RemoteFailures \cup {"TypeError", "MkdirError", "WriteError"}

\* C5: in the basics demo and in the chat loop no run in which the
\* completion call or the write of the response file failed ends with exit
\* status 0; a diagnostic is printed and the operation is not retried.
C5_NoSwallowedFailure ==
    (script \in {"chatbot", "basic"} /\ failure \in RuntimeFailures /\ exitCode # NoExit) =>
        /\ exitCode # 0
        /\ Len(stderr) > 0
        /\ pending = 0

\* C6: with GROQ_API_KEY missing or empty the script fails with a
\* configuration error before the client is constructed: main() is not
\* started, no input is read, no completion call is issued and no response
\* file is written.
C6_MissingKeyFatal ==
    (script \in {"chatbot", "basic"} /\ pc # "Load"
       /\ (~apiKey.defined \/ Len(apiKey.value) = 0)) =>
        /\ failure = "ConfigurationError"
        /\ pc = "Exited"
        /\ exitCode # 0
        /\ ~client
        /\ ~mainStarted
        /\ inputsRead = << >>
        /\ createCalls = 0
        /\ files = 0
        /\ chatMemory = << >>

C6_Witness ==
    /\ script = "basic"
    /\ apiKey = [defined |-> TRUE, value |-> ""]
    /\ pc = "Exited"
    /\ failure = "ConfigurationError"

\* C7: a completion result carrying a tool-call request sends the loop to
\* ToolDispatch; the ToolResult is appended as a role=tool turn right after
\* the triggering assistant turn and before any new user turn, the completion
\* client is re-invoked without a read of user input, and the loop returns to
\* AwaitingInput only after a result with plain content.
C7_ToolTurnOrder ==
    script = "toolchat" =>
        /\ \A i \in 1..Len(chatMemory) :
              chatMemory[i].toolCallRequest # NoTool =>
                 IF i < Len(chatMemory)
                 THEN /\ chatMemory[i + 1].role = "tool"
                      /\ chatMemory[i + 1].toolCallId = chatMemory[i].toolCallId
                 ELSE pc \in {"ToolDispatch", "Exited"}
        /\ \A i \in 1..Len(chatMemory) :
              chatMemory[i].role = "tool" =>
                 /\ i > 1
                 /\ chatMemory[i - 1].role = "assistant"
                 /\ chatMemory[i - 1].toolCallRequest \in ToolRegistry
                 /\ (i = Len(chatMemory) =>
                        pc \in {"Completing", "Exited"} /\ (pc = "Completing" => pending = 1))
        /\ (pc = "AwaitingInput" /\ Len(chatMemory) > 1) =>
              /\ Last(chatMemory).role = "assistant"
              /\ Last(chatMemory).toolCallRequest = NoTool
        /\ Len(inputsRead) <= 1 + Cardinality({i \in 1..Len(chatMemory) :
                                                 chatMemory[i].role = "user"})
        /\ (pc = "ToolDispatch" =>
              Len(inputsRead) = Cardinality({i \in 1..Len(chatMemory) :
                                               chatMemory[i].role = "user"}))

C7_Witness ==
    /\ script = "toolchat"
    /\ pc = "AwaitingInput"
    /\ Len(chatMemory) = 5
    /\ chatMemory[3].toolCallRequest = "get_weather"
    /\ chatMemory[4].role = "tool"
    /\ Len(inputsRead) = 1

\* C8: at most one completion call is in flight; while it is in flight the
\* loop reads no input and appends nothing, and the next read comes only
\* after the call has resolved and its response turn has been appended.
C8_TurnByTurn ==
    /\ [](IsChat => pending <= 1)
    /\ [][ (IsChat /\ pending > 0) =>
              /\ inputsRead' = inputsRead
              /\ (chatMemory' # chatMemory => pending' = 0) ]_vars
    /\ [][ (IsChat /\ inputsRead' # inputsRead) =>
              /\ pending = 0
              /\ Len(chatMemory) = 1 + 2 * Len(inputsRead)
              /\ (Len(chatMemory) > 1 => Last(chatMemory).role = "assistant") ]_vars

C8_Witness ==
    /\ IsChat
    /\ pending = 1
    /\ pc = "Completing"
    /\ Len(inputsRead) = 2

\* C9: the message store is append-only: each step leaves it unchanged or
\* extends it by one turn at the end, stored turns keep role, content and
\* position, and position 0 always holds the system instruction.
C9_AppendOnly ==
    /\ [](IsChat /\ Len(chatMemory) > 0 =>
             chatMemory[1] = [role |-> "system", content |-> SystemPrompt])
    /\ [][ IsChat =>
              \/ chatMemory' = chatMemory
              \/ /\ Len(chatMemory') = Len(chatMemory) + 1
                 /\ SubSeq(chatMemory', 1, Len(chatMemory)) = chatMemory ]_vars

C9_Witness ==
    /\ IsChat
    /\ Len(chatMemory) = 5
    /\ chatMemory[5].role = "assistant"

\* C10: every completion call of the chat loop is issued with the user turn
\* just read as last turn of the store, so the history sent has even length
\* 2k, k >= 1; a run ended by a failed call leaves the store ending with an
\* unanswered user turn, a run ended by "exit" leaves it with odd length,
\* ending in an assistant turn or holding the system turn alone.
C10_CallAfterUserTurn ==
    /\ [][ (IsChat /\ createCalls' # createCalls) =>
              /\ Last(chatMemory').role = "user"
              /\ Last(chatMemory').content = lastLine'
              /\ Len(chatMemory') = Len(chatMemory) + 1
              /\ Len(sent') % 2 = 0
              /\ Len(sent') >= 2 ]_vars
    /\ []((IsChat /\ pc = "Exited" /\ failure # "ConfigurationError") =>
              /\ Last(chatMemory).role = "user"
              /\ Len(chatMemory) % 2 = 0)
    /\ []((IsChat /\ pc = "Terminated") =>
              /\ Len(chatMemory) % 2 = 1
              /\ (Len(chatMemory) = 1 \/ Last(chatMemory).role = "assistant")
              /\ chatMemory[1].role = "system")

C10_Witness ==
    /\ IsChat
    /\ pc = "Exited"
    /\ failure = "APIStatusError"
    /\ Len(chatMemory) = 4
    /\ Last(chatMemory).role = "user"
====
